---- MODULE Spec2Model ----
(***************************************************************************)
(* Model of train_validate_model (src/utils.py): the epoch loop with its   *)
(* "last" and "best" checkpoints, resume from the "last" checkpoint and    *)
(* early stopping.  A process crash and a re-invocation of the function    *)
(* are environment steps; the model, the loss function and the data are    *)
(* opaque, so the validation loss of an epoch is an input.  Losses are     *)
(* integers (hundredths in the worked scenario), only their order matters. *)
(***************************************************************************)
EXTENDS Integers, Sequences, FiniteSets

\* ---- bounds ----
MaxEpochs == 4
MaxLoss == 2
MaxPatience == 2
MaxInvocations == 2
NumTrainBatches == 2
ScenarioMaxEpochs == 7
MaxPixels == 1
MaxUpdates == 2
MaxCount == 1
MaxBatches == 2
MaxPasses == 2

\* ---- program constants ----
\* np.Inf, the initial min_val_loss: larger than every loss
Inf == 1000

Losses == 1..MaxLoss
EarlyStops == {-2, -1} \cup (0..MaxPatience)
\* validation losses 0.5, 0.4, 0.45, 0.46, 0.47 in hundredths
ScenarioLosses == <<50, 40, 45, 46, 47>>

VARIABLES
    folder,           \* the model folder exists
    last,             \* content of <model_name>_last.pt
    best,             \* content of <model_name>_best.pt
    num_epochs, early_stop,
    results, min_val_loss, best_epoch, epochs_trained, epoch,
    validation_loss,
    model,            \* parameters held by the model: epoch that trained them last, -1 = untrained
    pc,               \* position in train_validate_model
    early_stopped,    \* the loop was left by the break
    result,           \* value returned by the invocation
    train_batches, optimizer_steps, evaluations, last_writes, best_writes,
    invocations,      \* number of calls of train_validate_model so far
    crashed_at        \* position at which the interrupted invocation being resumed crashed

train_vars == <<folder, last, best, num_epochs, early_stop, results, min_val_loss,
          best_epoch, epochs_trained, epoch, validation_loss, model, pc,
          early_stopped, result, train_batches, optimizer_steps, evaluations,
          last_writes, best_writes, invocations, crashed_at>>

disk == <<folder, last, best>>
counters == <<train_batches, optimizer_steps, evaluations, last_writes, best_writes>>

\* the IoU metric object, its use by a caller and by evaluate_model
VARIABLES
    num_classes,      \* self.num_classes
    arrays,           \* the ndarray objects alive: identity |-> content
    confusion_matrix, \* identity of the array self.confusion_matrix refers to
    snapshot,         \* the dictionary returned by the last compute()
    updates,          \* number of update() calls so far
    prior_matrix,     \* content of the confusion matrix before the last update()
    prior_batch,      \* the batch given to the last update()
    ev_pc,            \* position in evaluate_model
    len_dataloader,   \* len(dataloader)
    batches_done,     \* batches the loop of evaluate_model has consumed
    total_loss,
    evaluation_loss,  \* the mean loss returned by evaluate_model
    seen,             \* pixels of the current pass, counted per (label, predicted class)
    passes            \* number of calls of evaluate_model so far

metric_vars == <<num_classes, arrays, confusion_matrix, snapshot, updates,
                 prior_matrix, prior_batch, ev_pc, len_dataloader, batches_done,
                 total_loss, evaluation_loss, seen,
                   passes>>

vars == <<train_vars, metric_vars>>

\* ---- data ----
NoCheckpoint == [exists |-> FALSE, model |-> -1, min_val_loss |-> Inf,
                 results |-> <<>>, epoch |-> -1]

NoResult == [isNone |-> TRUE, rows |-> <<>>]

\* mutant: the record carries the 1-based epoch number that the log prints
EpochRecordOneBased(e, v) == [epoch |-> e + 1, validationLoss |-> v]

EpochRecord(e, v) == [epoch |-> e, validationLoss |-> v]

\* mutant: the checkpoint carries the index of the next epoch
CheckpointNextEpoch(m, mvl, res, e) ==
    [exists |-> TRUE, model |-> m, min_val_loss |-> mvl, results |-> res, epoch |-> e + 1]

\* the dictionary handed to torch.save
Checkpoint(m, mvl, res, e) ==
    [exists |-> TRUE, model |-> m, min_val_loss |-> mvl, results |-> res, epoch |-> e]

\* ---- pure helpers ----
\* min(results, key=lambda x: x['validationLoss']): the first record with the least loss
RECURSIVE MinScan(_, _, _)
MinScan(res, i, b) ==
    IF i > Len(res) THEN res[b]
    ELSE MinScan(res, i + 1, IF res[i].validationLoss < res[b].validationLoss THEN i ELSE b)

\* mutant: the most recent record is taken for the best one
LastRecordAsMin(res) == res[Len(res)]

MinByValidationLoss(res) == MinScan(res, 2, 1)

\* mutant: the restored epoch is trained again
EpochsTrainedNoIncrement(res) == res[Len(res)].epoch

EpochsTrained(res) == res[Len(res)].epoch + 1

AlreadyTrained(trained, n) == trained >= n

\* mutant: a tie is not an improvement
StrictlyImproved(v, mvl) == v < mvl

Improved(v, mvl) == v <= mvl

EarlyStopEnabled(p) == p # -1

\* mutant: the loop stops as soon as the patience is reached
PatienceReached(e, b, p) == e - b >= p

PatienceExceeded(e, b, p) == e - b > p

Running == {"train", "validate", "save_last", "decide", "finish"}

\* ---- operations ----
\* lines 258-298: placeholders, load of the "last" checkpoint, short-circuit, loop entry
Invoke(n, p) ==
    /\ UNCHANGED metric_vars
    /\ pc \in {"idle", "crashed", "returned"}
    /\ invocations < MaxInvocations
    /\ invocations' = invocations + 1
    /\ LET loaded == folder /\ last.exists
           res == IF loaded THEN last.results ELSE <<>>
           trained == IF res # <<>> THEN EpochsTrained(res) ELSE 0
       IN /\ folder' = TRUE
          /\ num_epochs' = n
          /\ early_stop' = p
          /\ results' = res
          /\ model' = IF loaded THEN last.model ELSE -1
          /\ epochs_trained' = trained
          /\ min_val_loss' = IF res # <<>> THEN MinByValidationLoss(res).validationLoss ELSE Inf
          /\ best_epoch' = IF res # <<>> THEN MinByValidationLoss(res).epoch ELSE -1
          /\ IF res # <<>> /\ AlreadyTrained(trained, n)
             THEN pc' = "returned" /\ epoch' = -1
             ELSE IF trained < n
                  THEN pc' = "train" /\ epoch' = trained
                  ELSE pc' = "finish" /\ epoch' = -1
    /\ validation_loss' = 0
    /\ early_stopped' = FALSE
    /\ result' = NoResult
    /\ train_batches' = 0 /\ optimizer_steps' = 0 /\ evaluations' = 0
    /\ last_writes' = 0 /\ best_writes' = 0
    /\ UNCHANGED <<last, best, crashed_at>>

\* lines 301-326: the training batches of one epoch
TrainEpoch ==
    /\ UNCHANGED metric_vars
    /\ pc = "train"
    /\ train_batches' = train_batches + NumTrainBatches
    /\ optimizer_steps' = optimizer_steps + NumTrainBatches
    /\ model' = epoch
    /\ pc' = "validate"
    /\ UNCHANGED <<disk, num_epochs, early_stop, results, min_val_loss, best_epoch,
                   epochs_trained, epoch, validation_loss, early_stopped, result,
                   evaluations, last_writes, best_writes, invocations, crashed_at>>

\* lines 328-344: evaluate_model on the validation data, then results.append
Validate(v) ==
    /\ UNCHANGED metric_vars
    /\ pc = "validate"
    /\ validation_loss' = v
    /\ evaluations' = evaluations + 1
    /\ results' = Append(results, EpochRecord(epoch, v))
    /\ pc' = "save_last"
    /\ UNCHANGED <<disk, num_epochs, early_stop, min_val_loss, best_epoch,
                   epochs_trained, epoch, model, early_stopped, result,
                   train_batches, optimizer_steps, last_writes, best_writes,
                   invocations, crashed_at>>

\* lines 346-356: torch.save of the "last" checkpoint
SaveLast ==
    /\ UNCHANGED metric_vars
    /\ pc = "save_last"
    /\ last' = Checkpoint(model, min_val_loss, results, epoch)
    /\ last_writes' = last_writes + 1
    /\ pc' = "decide"
    /\ UNCHANGED <<folder, best, num_epochs, early_stop, results, min_val_loss,
                   best_epoch, epochs_trained, epoch, validation_loss, model,
                   early_stopped, result, train_batches, optimizer_steps,
                   evaluations, best_writes, invocations, crashed_at>>

\* lines 358-378 and the loop header of line 298
BestOrStop ==
    /\ UNCHANGED metric_vars
    /\ pc = "decide"
    /\ IF Improved(validation_loss, min_val_loss)
       THEN /\ min_val_loss' = validation_loss
            /\ best_epoch' = epoch
            /\ best' = Checkpoint(model, validation_loss, results, epoch)
            /\ best_writes' = best_writes + 1
            /\ early_stopped' = FALSE
            /\ IF epoch + 1 < num_epochs
               THEN pc' = "train" /\ epoch' = epoch + 1
               ELSE pc' = "finish" /\ epoch' = epoch
       ELSE /\ UNCHANGED <<min_val_loss, best_epoch, best, best_writes>>
            /\ IF EarlyStopEnabled(early_stop) /\ PatienceExceeded(epoch, best_epoch, early_stop)
               THEN pc' = "finish" /\ epoch' = epoch /\ early_stopped' = TRUE
               ELSE /\ early_stopped' = FALSE
                    /\ IF epoch + 1 < num_epochs
                       THEN pc' = "train" /\ epoch' = epoch + 1
                       ELSE pc' = "finish" /\ epoch' = epoch
    /\ UNCHANGED <<folder, last, num_epochs, early_stop, results, epochs_trained,
                   validation_loss, model, result, train_batches, optimizer_steps,
                   evaluations, last_writes, invocations, crashed_at>>

\* lines 383-386: the result of a run that entered the loop
Return ==
    /\ UNCHANGED metric_vars
    /\ pc = "finish"
    /\ result' = [isNone |-> FALSE, rows |-> results]
    /\ crashed_at' = "none"
    /\ pc' = "returned"
    /\ UNCHANGED <<disk, num_epochs, early_stop, results, min_val_loss, best_epoch,
                   epochs_trained, epoch, validation_loss, model, early_stopped,
                   counters, invocations>>

\* the process dies: what is in memory is lost, the files stay
Crash ==
    /\ UNCHANGED metric_vars
    /\ pc \in Running
    /\ crashed_at' = pc
    /\ pc' = "crashed"
    /\ results' = <<>>
    /\ min_val_loss' = Inf
    /\ best_epoch' = -1
    /\ epochs_trained' = 0
    /\ epoch' = -1
    /\ validation_loss' = 0
    /\ model' = -1
    /\ early_stopped' = FALSE
    /\ result' = NoResult
    /\ train_batches' = 0 /\ optimizer_steps' = 0 /\ evaluations' = 0
    /\ last_writes' = 0 /\ best_writes' = 0
    /\ num_epochs' = 0
    /\ early_stop' = -1
    /\ UNCHANGED <<disk, invocations>>

\* the next call uses a model_name whose folder does not exist yet
NewRunName ==
    /\ UNCHANGED metric_vars
    /\ pc \in {"crashed", "returned"}
    /\ folder
    /\ folder' = FALSE
    /\ last' = NoCheckpoint
    /\ best' = NoCheckpoint
    /\ crashed_at' = "none"
    /\ pc' = "idle"
    /\ UNCHANGED <<num_epochs, early_stop, results, min_val_loss, best_epoch,
                   epochs_trained, epoch, validation_loss, model, early_stopped,
                   result, counters, invocations>>

\* ---- the IoU metric (class IoU) ----
\* a batch is the flattened sequence of its pixels; a pixel has its ground-truth
\* label and its score per class (y_preds along dim 1)
Pixel(t, s) == [label |-> t, scores |-> s]

\* np.zeros((num_classes, num_classes))
ZeroMatrix(n) == [i \in 0..(n - 1) |-> [j \in 0..(n - 1) |-> 0]]

\* torch.argmax along the class dimension: the first index holding the maximum
RECURSIVE ArgmaxScan(_, _, _)
ArgmaxScan(s, i, b) ==
    IF i > Len(s) THEN b - 1
    ELSE ArgmaxScan(s, i + 1, IF s[i] > s[b] THEN i ELSE b)

Argmax(s) == ArgmaxScan(s, 2, 1)

Labels(batch) == [i \in 1..Len(batch) |-> batch[i].label]

PredictedLabels(batch) == [i \in 1..Len(batch) |-> Argmax(batch[i].scores)]

Mask(n, t) == t >= 0 /\ t < n

\* mutant: row and column of the cell are exchanged
PixelCodeSwapped(n, t, p) == n * p + t

PixelCode(n, t, p) == n * t + p

\* _fast_hist: np.bincount of the codes of the masked pixels, reshaped to n x n
FastHist(n, label_true, label_pred) ==
    LET bins == [k \in 0..(n * n - 1) |->
                    Cardinality({i \in 1..Len(label_true) :
                        /\ Mask(n, label_true[i])
                        /\ PixelCode(n, label_true[i], label_pred[i]) = k})]
    IN [i \in 0..(n - 1) |-> [j \in 0..(n - 1) |-> bins[n * i + j]]]

\* mutant: the batch matrix replaces the running matrix
Overwrite(cm, hist) == hist

\* self.confusion_matrix += batch_confusion_matrix
Accumulate(cm, hist) ==
    [i \in DOMAIN cm |-> [j \in DOMAIN cm[i] |-> cm[i][j] + hist[i][j]]]

\* a float is a fraction num/den or not-a-number
NaN == [nan |-> TRUE, num |-> 0, den |-> 1]

\* mutant: a class without pixels gets the value 0
RatioZeroForAbsent(a, b) ==
    IF b = 0 THEN [nan |-> FALSE, num |-> 0, den |-> 1]
    ELSE [nan |-> FALSE, num |-> a, den |-> b]

\* numpy division a / b of counts with a <= b: 0/0 is nan
Ratio(a, b) == IF b = 0 THEN NaN ELSE [nan |-> FALSE, num |-> a, den |-> b]

RECURSIVE SumUpTo(_, _)
SumUpTo(f, k) == IF k < 0 THEN 0 ELSE f[k] + SumUpTo(f, k - 1)

RowSum(hist, n, c) == SumUpTo(hist[c], n - 1)

ColSum(hist, n, c) == SumUpTo([i \in 0..(n - 1) |-> hist[i][c]], n - 1)

Trace(hist, n) == SumUpTo([i \in 0..(n - 1) |-> hist[i][i]], n - 1)

Total(hist, n) == SumUpTo([i \in 0..(n - 1) |-> RowSum(hist, n, i)], n - 1)

\* np.nanmean: the sum and the number of the entries 0..k that are not nan
RECURSIVE NanSum(_, _)
NanSum(v, k) ==
    IF k < 0 THEN [num |-> 0, den |-> 1, count |-> 0]
    ELSE LET r == NanSum(v, k - 1)
         IN IF v[k].nan THEN r
            ELSE [num |-> r.num * v[k].den + v[k].num * r.den,
                  den |-> r.den * v[k].den,
                  count |-> r.count + 1]

NanMean(v, n) ==
    LET r == NanSum(v, n - 1)
    IN IF r.count = 0 THEN NaN
       ELSE [nan |-> FALSE, num |-> r.num, den |-> r.den * r.count]

\* the dictionary compute() returns for the array ref with content hist
Metrics(hist, n, ref) ==
    LET iu == [c \in 0..(n - 1) |->
                  Ratio(hist[c][c], RowSum(hist, n, c) + ColSum(hist, n, c) - hist[c][c])]
        f1 == [c \in 0..(n - 1) |->
                  Ratio(2 * hist[c][c], RowSum(hist, n, c) + ColSum(hist, n, c))]
    IN [exists |-> TRUE,
        accuracy |-> Ratio(Trace(hist, n), Total(hist, n)),
        miou |-> NanMean(iu, n),
        classwise_iou |-> iu,
        classwise_f1 |-> f1,
        f1_mean |-> NanMean(f1, n),
        matrix |-> ref]

NoSnapshot == [exists |-> FALSE]

\* a metric object IoU(n) on which nothing was called yet
MetricObject(n) ==
    /\ num_classes = n
    /\ arrays = [r \in {0} |-> ZeroMatrix(n)]
    /\ confusion_matrix = 0
    /\ snapshot = NoSnapshot
    /\ updates = 0
    /\ prior_matrix = ZeroMatrix(n)
    /\ prior_batch = <<>>

EvaluateIdle ==
    /\ ev_pc = "idle"
    /\ len_dataloader = 0
    /\ batches_done = 0
    /\ total_loss = 0
    /\ evaluation_loss = NaN
    /\ seen = ZeroMatrix(2)
    /\ passes = 0

MetricInit == MetricObject(2) /\ EvaluateIdle

TrainInit ==
    /\ folder = FALSE
    /\ last = NoCheckpoint
    /\ best = NoCheckpoint
    /\ num_epochs = 0
    /\ early_stop = -1
    /\ results = <<>>
    /\ min_val_loss = Inf
    /\ best_epoch = -1
    /\ epochs_trained = 0
    /\ epoch = -1
    /\ validation_loss = 0
    /\ model = -1
    /\ pc = "idle"
    /\ early_stopped = FALSE
    /\ result = NoResult
    /\ train_batches = 0 /\ optimizer_steps = 0 /\ evaluations = 0
    /\ last_writes = 0 /\ best_writes = 0
    /\ invocations = 0
    /\ crashed_at = "none"

Init == TrainInit /\ MetricInit

Next ==
    \/ \E n \in 1..MaxEpochs, p \in EarlyStops : Invoke(n, p)
    \/ TrainEpoch
    \/ \E v \in Losses : Validate(v)
    \/ SaveLast
    \/ BestOrStop
    \/ Return
    \/ Crash
    \/ NewRunName

Spec == Init /\ [][Next]_vars

\* the worked early-stopping scenario: the validation loss of epoch e is
\* ScenarioLosses[e+1], later epochs repeat the last value
ScenarioLoss(e) == IF e < Len(ScenarioLosses) THEN ScenarioLosses[e + 1]
                   ELSE ScenarioLosses[Len(ScenarioLosses)]

NextScenario ==
    \/ \E n \in 1..ScenarioMaxEpochs, p \in {-1, 2} : Invoke(n, p)
    \/ TrainEpoch
    \/ Validate(ScenarioLoss(epoch))
    \/ SaveLast
    \/ BestOrStop
    \/ Return
    \/ Crash
    \/ NewRunName

SpecScenario == Init /\ [][NextScenario]_vars

\* ---- operations of the metric ----
\* the pixels a batch may hold: labels from -1 to n (both out-of-range sides),
\* scores 0 or 1 for each of the n classes
Pixels(n) == {Pixel(t, s) : t \in -1..n, s \in [1..n -> 0..1]}

Batches(n, k) == UNION {[1..m -> Pixels(n)] : m \in 1..k}

\* three batches of two pixels: all in range, one out of range, a tie of scores
SampleBatches ==
    {<<Pixel(0, <<1, 0>>), Pixel(1, <<0, 1>>)>>,
     <<Pixel(1, <<1, 0>>), Pixel(2, <<0, 1>>)>>,
     <<Pixel(0, <<1, 1>>), Pixel(-1, <<0, 1>>)>>}

\* the arrays some reference still reaches
Live(cm, snap) == {cm} \cup (IF snap.exists THEN {snap.matrix} ELSE {})

NewArray(used) == CHOOSE r \in 0..2 : r \notin used

\* lines 104-109: the running matrix is added to in place
Update(batch) ==
    /\ UNCHANGED train_vars
    /\ ev_pc = "idle"
    /\ updates < MaxUpdates
    /\ updates' = updates + 1
    /\ arrays' = [arrays EXCEPT ![confusion_matrix] =
                     Accumulate(@, FastHist(num_classes, Labels(batch), PredictedLabels(batch)))]
    /\ prior_matrix' = arrays[confusion_matrix]
    /\ prior_batch' = batch
    /\ UNCHANGED <<num_classes, confusion_matrix, snapshot, ev_pc, len_dataloader,
                   batches_done, total_loss, evaluation_loss, seen,
                   passes>>

\* lines 111-132 with matrix = None: hist is self.confusion_matrix itself
Compute ==
    /\ UNCHANGED train_vars
    /\ ev_pc = "idle"
    /\ snapshot' = Metrics(arrays[confusion_matrix], num_classes, confusion_matrix)
    /\ arrays' = [r \in {confusion_matrix} |-> arrays[r]]
    /\ UNCHANGED <<num_classes, confusion_matrix, updates, prior_matrix, prior_batch,
                   ev_pc, len_dataloader, batches_done, total_loss, evaluation_loss, seen,
                   passes>>

\* lines 134-136: self.confusion_matrix is bound to a new array of zeros
Reset ==
    /\ UNCHANGED train_vars
    /\ ev_pc = "idle"
    /\ LET new == NewArray(Live(confusion_matrix, snapshot))
       IN /\ confusion_matrix' = new
          /\ arrays' = [r \in Live(new, snapshot) |->
                           IF r = new THEN ZeroMatrix(num_classes) ELSE arrays[r]]
    /\ prior_matrix' = ZeroMatrix(num_classes)
    /\ prior_batch' = <<>>
    /\ UNCHANGED <<num_classes, snapshot, updates, ev_pc, len_dataloader,
                   batches_done, total_loss, evaluation_loss, seen,
                   passes>>

NextMetric ==
    \/ \E b \in Batches(num_classes, MaxPixels) : Update(b)
    \/ Reset

SpecMetric == Init /\ [][NextMetric]_vars

NextSnapshot ==
    \/ \E b \in SampleBatches : Update(b)
    \/ Compute
    \/ Reset

SpecSnapshot == Init /\ [][NextSnapshot]_vars

\* compute() on the matrices of three classes with at most MaxCount per cell
ComputeInit ==
    /\ TrainInit
    /\ EvaluateIdle
    /\ num_classes = 3
    /\ arrays \in [{0} -> [0..2 -> [0..2 -> 0..MaxCount]]]
    /\ confusion_matrix = 0
    /\ snapshot = NoSnapshot
    /\ updates = 0
    /\ prior_matrix = ZeroMatrix(3)
    /\ prior_batch = <<>>

SpecCompute == ComputeInit /\ [][Compute]_vars

\* ---- evaluate_model ----
\* mutant: the metric object of the previous pass is used again
ReusedMatrix(old, n) == old

\* metric_class(num_classes): a new object with a matrix of zeros
FreshMatrix(old, n) == ZeroMatrix(n)

\* mutant: the loss sum is divided by the number of pixels
MeanLossPerPixel(total, batches, pixels) == [nan |-> FALSE, num |-> total, den |-> pixels]

\* total_loss / len(dataloader)
MeanLoss(total, batches, pixels) == [nan |-> FALSE, num |-> total, den |-> batches]

\* lines 193-195, for a dataloader of n batches
EvalBegin(n) ==
    /\ UNCHANGED train_vars
    /\ ev_pc \in {"idle", "done"}
    /\ passes < MaxPasses
    /\ passes' = passes + 1
    /\ ev_pc' = "loop"
    /\ len_dataloader' = n
    /\ batches_done' = 0
    /\ total_loss' = 0
    /\ evaluation_loss' = NaN
    /\ snapshot' = NoSnapshot
    /\ confusion_matrix' = 0
    /\ arrays' = [r \in {0} |-> FreshMatrix(arrays[confusion_matrix], num_classes)]
    /\ seen' = ZeroMatrix(num_classes)
    /\ UNCHANGED <<num_classes, updates, prior_matrix, prior_batch>>

\* lines 198-208: one batch of the dataloader with its loss
EvalBatch(batch, loss) ==
    /\ UNCHANGED train_vars
    /\ ev_pc = "loop"
    /\ batches_done < len_dataloader
    /\ batches_done' = batches_done + 1
    /\ total_loss' = total_loss + loss
    /\ arrays' = [arrays EXCEPT ![confusion_matrix] =
                     Accumulate(@, FastHist(num_classes, Labels(batch), PredictedLabels(batch)))]
    /\ seen' = [c \in 0..(num_classes - 1) |-> [p \in 0..(num_classes - 1) |->
                   seen[c][p] + Cardinality({i \in 1..Len(batch) :
                       batch[i].label = c /\ Argmax(batch[i].scores) = p})]]
    /\ UNCHANGED <<num_classes, confusion_matrix, snapshot, updates, prior_matrix,
                   prior_batch, ev_pc, len_dataloader, evaluation_loss, passes>>

\* lines 213-215
EvalEnd ==
    /\ UNCHANGED train_vars
    /\ ev_pc = "loop"
    /\ batches_done = len_dataloader
    /\ evaluation_loss' = MeanLoss(total_loss, len_dataloader, Total(seen, num_classes))
    /\ snapshot' = Metrics(arrays[confusion_matrix], num_classes, confusion_matrix)
    /\ ev_pc' = "done"
    /\ UNCHANGED <<num_classes, arrays, confusion_matrix, updates, prior_matrix,
                   prior_batch, len_dataloader, batches_done, total_loss, seen, passes>>

NextEvaluate ==
    \/ \E n \in 1..MaxBatches : EvalBegin(n)
    \/ \E b \in Batches(num_classes, MaxPixels), l \in Losses : EvalBatch(b, l)
    \/ EvalEnd

SpecEvaluate == Init /\ [][NextEvaluate]_vars

\* ---- claims ----

\* C1: at startup, without a "last" checkpoint the run starts with epoch
\* counter 0, minimum validation loss +infinity, best-epoch -1 and no records;
\* with one, the records are restored from it, the epoch counter is the epoch
\* of the last restored record plus one, and minimum validation loss and
\* best-epoch are the least restored validation loss and the epoch of a record
\* holding it.
C1_Startup ==
    [][(invocations' = invocations + 1) =>
         IF ~last.exists
         THEN /\ epochs_trained' = 0
              /\ min_val_loss' = Inf
              /\ best_epoch' = -1
              /\ results' = <<>>
         ELSE /\ results' = last.results
              /\ epochs_trained' = last.results[Len(last.results)].epoch + 1
              /\ pc' = "train" => epoch' = epochs_trained'
              /\ \A i \in 1..Len(last.results) :
                     min_val_loss' <= last.results[i].validationLoss
              /\ \E i \in 1..Len(last.results) :
                     /\ last.results[i].validationLoss = min_val_loss'
                     /\ last.results[i].epoch = best_epoch']_vars

C1_Witness ==
    /\ pc = "train"
    /\ epochs_trained = 2
    /\ epoch = 2
    /\ results = last.results
    /\ best_epoch = 1
    /\ min_val_loss < results[1].validationLoss

\* C2: when the loaded "last" checkpoint already covers the configured number
\* of epochs, the invocation returns at once: no training batch, no optimizer
\* step, no evaluation and no checkpoint write.
C2_NoOpRun ==
    [][(invocations' = invocations + 1 /\ last.exists /\ last.epoch + 1 >= num_epochs') =>
         /\ pc' = "returned"
         /\ train_batches' = 0
         /\ optimizer_steps' = 0
         /\ evaluations' = 0
         /\ last_writes' = 0
         /\ best_writes' = 0
         /\ last' = last
         /\ best' = best]_vars

C2_Witness ==
    /\ pc = "returned"
    /\ result.isNone
    /\ last.exists
    /\ last.epoch + 1 >= num_epochs
    /\ train_batches = 0
    /\ evaluations = 0
    /\ last_writes = 0

\* C3: every epoch that finishes validation overwrites the "last" checkpoint
\* with the epoch's index and the records up to that epoch, and it does so
\* before the "best" checkpoint is written and before the loop is left by early
\* stopping; when the epoch completes, "last" still holds that epoch.
C3_LastEveryEpoch ==
    [][/\ (pc = "save_last" /\ pc' # "crashed") =>
              /\ pc' = "decide"
              /\ last'.exists
              /\ last'.epoch = epoch
              /\ last'.results = results
              /\ results[Len(results)] = [epoch |-> epoch, validationLoss |-> validation_loss]
              /\ best' = best
              /\ ~early_stopped'
       /\ (pc = "decide" /\ pc' # "crashed") =>
              /\ last' = last
              /\ last.epoch = epoch
              /\ last.results[Len(last.results)].epoch = epoch
       /\ ((best'.exists /\ best' # best) \/ (early_stopped' /\ ~early_stopped)) =>
              /\ pc = "decide"
              /\ last.epoch = epoch]_vars

C3_Witness ==
    /\ pc = "decide"
    /\ epoch = 2
    /\ last.exists
    /\ last.epoch = 2
    /\ Len(last.results) = 3
    /\ best.exists
    /\ best.epoch < 2

\* C4: the "best" checkpoint is written in an epoch exactly when the epoch's
\* validation loss is at most the minimum so far (a tie included); it then
\* holds the current epoch and its parameters, and minimum and best-epoch move
\* to the current epoch.  In a run started without a checkpoint and not
\* interrupted, the "best" checkpoint's epoch is best-epoch after every epoch.
C4_BestIffNotWorse ==
    /\ [][(pc = "decide" /\ pc' # "crashed") =>
            IF validation_loss <= min_val_loss
            THEN /\ best_writes' = best_writes + 1
                 /\ min_val_loss' = validation_loss
                 /\ best_epoch' = epoch
                 /\ best'.exists
                 /\ best'.epoch = epoch
                 /\ best'.model = epoch
                 /\ best'.results = results
            ELSE /\ best_writes' = best_writes
                 /\ best' = best
                 /\ min_val_loss' = min_val_loss
                 /\ best_epoch' = best_epoch]_vars
    /\ []((pc \in {"train", "validate", "finish", "returned"}
             /\ epochs_trained = 0 /\ Len(results) > 0) =>
            (best.exists /\ best.epoch = best_epoch))

C4_Witness ==
    /\ pc = "train"
    /\ epochs_trained = 0
    /\ Len(results) = 2
    /\ results[1].validationLoss = results[2].validationLoss
    /\ best_writes = 2
    /\ best.epoch = 1
    /\ best.model = 1
    /\ best_epoch = 1

\* C5 (as stated): with a non-negative patience p the loop is left right after
\* epoch e exactly when e did not improve and e - best-epoch > p; with early
\* stopping not enabled (no non-negative patience) the loop runs every epoch up
\* to the configured total.
C5_Original ==
    [][(pc = "decide" /\ pc' # "crashed") =>
         /\ early_stop >= 0 =>
                (early_stopped' <=>
                    (validation_loss > min_val_loss /\ epoch - best_epoch > early_stop))
         /\ early_stop < 0 =>
                /\ ~early_stopped'
                /\ epoch + 1 < num_epochs => (pc' = "train" /\ epoch' = epoch + 1)
         /\ early_stopped' => pc' = "finish"]_vars

\* C6 (as stated): fresh run, patience 2, more than 5 epochs, validation losses
\* 0.5, 0.4, 0.45, 0.46, 0.47: the run stops after epoch 4 with 5 "last"
\* writes and exactly one "best" write, at epoch 1.
C6_Original ==
    (pc = "returned" /\ ~result.isNone /\ epochs_trained = 0
       /\ early_stop = 2 /\ num_epochs > 5) =>
        /\ early_stopped
        /\ epoch = 4
        /\ Len(result.rows) = 5
        /\ last_writes = 5
        /\ best_writes = 1
        /\ best.epoch = 1

\* C6 (amended): in that scenario the run stops after epoch 4 with 5 "last"
\* writes and two "best" writes (epochs 0 and 1), the "best" checkpoint left on
\* disk being the one of epoch 1.
C6_Amended ==
    (pc = "returned" /\ ~result.isNone /\ epochs_trained = 0
       /\ early_stop = 2 /\ num_epochs > 5) =>
        /\ early_stopped
        /\ epoch = 4
        /\ Len(result.rows) = 5
        /\ last_writes = 5
        /\ last.epoch = 4
        /\ best_writes = 2
        /\ best.epoch = 1
        /\ best_epoch = 1

C6_Witness ==
    /\ pc = "returned"
    /\ epochs_trained = 0
    /\ early_stop = 2
    /\ num_epochs > 5
    /\ early_stopped
    /\ last_writes = 5
    /\ result.rows[5].validationLoss = 47

\* C7: the record sequence has one record per completed epoch with indices
\* 0, 1, 2, ... in memory and in both checkpoints; it only grows by appending;
\* a resumed run starts from exactly the persisted records and what is
\* persisted later extends what was persisted before.
C7_AppendOnly ==
    /\ [](\A res \in {results, last.results, best.results} :
              \A i \in 1..Len(res) : res[i].epoch = i - 1)
    /\ []((pc \in {"train", "validate"} => Len(results) = epoch)
          /\ (pc \in {"save_last", "decide"} => Len(results) = epoch + 1))
    /\ []((pc \in {"train", "validate", "save_last", "decide", "finish"} /\ last.exists) =>
              /\ Len(last.results) <= Len(results)
              /\ SubSeq(results, 1, Len(last.results)) = last.results)
    /\ [][\/ results' = results
          \/ pc' = "crashed"
          \/ invocations' = invocations + 1 /\ results' = last.results
          \/ /\ Len(results') = Len(results) + 1
             /\ SubSeq(results', 1, Len(results)) = results
             /\ results'[Len(results')].epoch = Len(results)]_vars
    /\ [][(last.exists /\ last'.exists) =>
              /\ Len(last.results) <= Len(last'.results)
              /\ SubSeq(last'.results, 1, Len(last.results)) = last.results]_vars

C7_Witness ==
    /\ pc = "decide"
    /\ crashed_at # "none"
    /\ epochs_trained = 2
    /\ epoch = 3
    /\ Len(results) = 4
    /\ Len(last.results) = 4

\* C8 (as stated): after a crash right after the "last" checkpoint of epoch k
\* was written, the resumed run continues at epoch k+1 and the "best"
\* checkpoint on disk is the checkpoint of the epoch the resumed run holds as
\* best-epoch.
C8_Original ==
    (crashed_at = "decide" /\ pc = "train" /\ epoch = epochs_trained) =>
        /\ epoch = last.epoch + 1
        /\ best.exists
        /\ best.epoch = best_epoch

\* C9 (as stated): the min_val_loss field of every checkpoint is the least
\* validation loss among the records stored in the same checkpoint.
C9_Original ==
    \A c \in {last, best} :
        c.exists =>
            /\ \A i \in 1..Len(c.results) : c.min_val_loss <= c.results[i].validationLoss
            /\ \E i \in 1..Len(c.results) : c.min_val_loss = c.results[i].validationLoss

\* C10 (as stated): the returned value tells a run ended by early stopping
\* from a run that completed all configured epochs.  The returned value is the
\* record sequence alone, so the only thing it can tell is whether it has fewer
\* records than configured epochs (checked for non-negative patience).
C10_Original ==
    (pc = "returned" /\ ~result.isNone /\ early_stop >= 0) =>
        (early_stopped <=> Len(result.rows) < num_epochs)

\* C11 (as stated): with early_stop = n >= 0 a run never executes more than n
\* consecutive epochs that fail to improve on the minimum validation loss
\* (checked for n >= 1 on a run started without a checkpoint: every trailing
\* block of non-improving epochs has at most n epochs).
C11_Original ==
    (pc \in Running /\ epochs_trained = 0 /\ early_stop >= 1) =>
        \A k \in 1..Len(results) :
            (\A j \in k..Len(results) :
                 \E i \in 1..(j - 1) : results[i].validationLoss < results[j].validationLoss)
            => Len(results) - k + 1 <= early_stop

\* C12: an update adds to the running confusion matrix exactly one count at the
\* cell (true class, predicted class) for every pixel of the batch whose label
\* lies in [0, num_classes) and nothing for any other pixel: the total grows by
\* the number of in-range pixels, no cell decreases, no cell is ever negative.
C12_UpdateCounts ==
    /\ [](\A c, p \in 0..(num_classes - 1) : arrays[confusion_matrix][c][p] >= 0)
    /\ [][updates' = updates + 1 =>
            LET n == num_classes
                old == arrays[confusion_matrix]
                new == arrays'[confusion_matrix']
                b == prior_batch'
                predicted(i, p) ==
                    /\ \A q \in 1..n : b[i].scores[q] <= b[i].scores[p + 1]
                    /\ \A q \in 1..p : b[i].scores[q] < b[i].scores[p + 1]
                inrange == {i \in 1..Len(b) : b[i].label >= 0 /\ b[i].label < n}
            IN /\ \A c, p \in 0..(n - 1) :
                      /\ new[c][p] = old[c][p] + Cardinality({i \in inrange :
                                         b[i].label = c /\ predicted(i, p)})
                      /\ new[c][p] >= old[c][p]
               /\ Total(new, n) = Total(old, n) + Cardinality(inrange)]_vars

\* an update with an out-of-range pixel followed one that counted a wrong prediction
C12_Witness ==
    /\ updates = 2
    /\ prior_batch # <<>>
    /\ prior_batch[1].label = num_classes
    /\ arrays[confusion_matrix][0][1] = 1
    /\ Total(arrays[confusion_matrix], num_classes) = 1

\* C13: accumulation is associative and order independent: from the same matrix,
\* batch A then batch B gives the matrix of one update with the concatenation of
\* A and B, and the matrix of B then A.
C13_Associative ==
    [][(updates' = updates + 1 /\ prior_batch # <<>>) =>
            LET n == num_classes
                A == prior_batch
                B == prior_batch'
                start == prior_matrix
                new == arrays'[confusion_matrix']
                H(b) == FastHist(n, Labels(b), PredictedLabels(b))
            IN \A c, p \in 0..(n - 1) :
                  /\ new[c][p] = start[c][p] + H(A \o B)[c][p]
                  /\ new[c][p] = (start[c][p] + H(B)[c][p]) + H(A)[c][p]]_vars

\* two different batches were added one after the other
C13_Witness ==
    /\ updates = 2
    /\ prior_batch # <<>>
    /\ arrays[confusion_matrix][0][1] = 1
    /\ arrays[confusion_matrix][1][0] = 1

\* C14: for a class c whose row and column of the matrix are all zero, compute
\* returns not-a-number for the IoU and the F1 of c (never zero), and mean IoU
\* and mean F1 are the averages over the classes with a defined value only.
C14_AbsentClassNaN ==
    snapshot.exists =>
        LET n == num_classes
            hist == arrays[snapshot.matrix]
            cls == 0..(n - 1)
            absent(c) == \A k \in cls : hist[c][k] = 0 /\ hist[k][c] = 0
            union(c) == RowSum(hist, n, c) + ColSum(hist, n, c) - hist[c][c]
            both(c) == RowSum(hist, n, c) + ColSum(hist, n, c)
            defined == {c \in cls : union(c) > 0}
            \* product of the denominators den[c] of the defined classes below k
            prod[k \in 0..n] ==
                [den \in {"iou", "f1"} |->
                    IF k = 0 THEN 1
                    ELSE prod[k - 1][den] *
                         (IF (k - 1) \in defined
                          THEN (IF den = "iou" THEN union(k - 1) ELSE both(k - 1))
                          ELSE 1)]
            \* sum over the defined classes below k of value[c] * product
            sum[k \in 0..n] ==
                [den \in {"iou", "f1"} |->
                    IF k = 0 THEN 0
                    ELSE sum[k - 1][den] +
                         (IF (k - 1) \in defined
                          THEN (IF den = "iou"
                                THEN hist[k - 1][k - 1] * (prod[n]["iou"] \div union(k - 1))
                                ELSE 2 * hist[k - 1][k - 1] * (prod[n]["f1"] \div both(k - 1)))
                          ELSE 0)]
            isAverage(m, den) ==
                IF defined = {} THEN m.nan
                ELSE /\ ~m.nan
                     /\ m.den # 0
                     /\ m.num * prod[n][den] * Cardinality(defined) = m.den * sum[n][den]
        IN /\ \A c \in cls : absent(c) =>
                  snapshot.classwise_iou[c].nan /\ snapshot.classwise_f1[c].nan
           /\ isAverage(snapshot.miou, "iou")
           /\ isAverage(snapshot.f1_mean, "f1")

\* three classes, class 2 absent, IoU 1/2 for classes 0 and 1: the mean is 1/2
C14_Witness ==
    /\ snapshot.exists
    /\ num_classes = 3
    /\ arrays[snapshot.matrix] = [i \in 0..2 |-> [j \in 0..2 |->
           IF (i = 0 /\ j = 0) \/ (i = 1 /\ j \in {0, 1}) THEN 1 ELSE 0]]
    /\ snapshot.classwise_iou[2].nan
    /\ snapshot.classwise_f1[2].nan
    /\ ~snapshot.miou.nan
    /\ 2 * snapshot.miou.num = snapshot.miou.den

\* C15: compute is read-only and its result is immutable: a compute step leaves
\* the accumulated confusion matrix unchanged, and the raw confusion matrix of a
\* snapshot compute returned is not changed by a later update or reset.
C15_Original ==
    [][/\ (updates' = updates /\ confusion_matrix' = confusion_matrix) =>
              arrays'[confusion_matrix'] = arrays[confusion_matrix]
       /\ (snapshot.exists /\ snapshot' = snapshot) =>
              arrays'[snapshot.matrix] = arrays[snapshot.matrix]]_vars

\* C16: a call of evaluate_model feeds every batch exactly once to a fresh metric
\* object, so the matrix of the returned snapshot counts every in-range pixel of
\* this pass once and nothing of an earlier pass; the call performs no optimizer
\* step, and the returned mean loss is the loss sum divided by the number of batches.
C16_EvaluatePass ==
    /\ [](ev_pc = "done" =>
            /\ batches_done = len_dataloader
            /\ snapshot.exists
            /\ arrays[snapshot.matrix] = seen
            /\ ~evaluation_loss.nan
            /\ evaluation_loss.den # 0
            /\ evaluation_loss.num * len_dataloader = evaluation_loss.den * total_loss)
    /\ [][optimizer_steps' = optimizer_steps /\ model' = model]_vars

\* a second pass of two batches returned: one pixel in range, one out of range
C16_Witness ==
    /\ ev_pc = "done"
    /\ passes = 2
    /\ len_dataloader = 2
    /\ total_loss = 3
    /\ Total(arrays[snapshot.matrix], num_classes) = 1

\* C17 (as stated): a run resumed from the "last" checkpoint written after
\* epoch k holds the minimum validation loss and the best-epoch that the
\* uninterrupted run held at the end of epoch k.
C17_Original ==
    [][(/\ invocations' = invocations + 1
        /\ pc = "returned"
        /\ ~result.isNone
        /\ epochs_trained = 0
        /\ last.exists
        /\ pc' = "train") =>
            /\ min_val_loss' = min_val_loss
            /\ best_epoch' = best_epoch]_vars

\* C18 (as stated): once a run has stopped early after epoch e with fewer than
\* the configured epochs completed, calling the function again with the same
\* epoch count and patience trains no further epoch and writes no checkpoint.
C18_Original ==
    [][(/\ invocations' = invocations + 1
        /\ pc = "returned"
        /\ early_stopped
        /\ early_stop >= 0
        /\ Len(results) < num_epochs
        /\ num_epochs' = num_epochs
        /\ early_stop' = early_stop) =>
            pc' = "returned"]_vars

\* C19 (as stated): every invocation that returns, the one that short-circuits
\* on an already complete checkpoint included, returns the full record
\* sequence of the run.
C19_Original ==
    pc = "returned" => (~result.isNone /\ result.rows = results)
====
